---- MODULE Spec2Model ----
(***************************************************************************)
(* Bit-serial, MSB-first CRC engines of src/src/lib.rs (CRC8, CRC16,       *)
(* CRC32, CRC64, CRC128).                                                  *)
(*                                                                         *)
(* A value of the unsigned type uW is a sequence of W/8 bytes (0..255),    *)
(* most significant byte first: u32 0x04C11DB7 is <<4, 193, 29, 183>>.     *)
(* The operators on such values (BitXor, BitAnd, Shl1, Shl, Cast) are the  *)
(* fixed-width operators of the language on uW: a left shift drops the     *)
(* bits that leave the top byte.                                           *)
(***************************************************************************)
EXTENDS Integers, Sequences, FiniteSets

\* ------------------------------------------------------------------------
\* Bounds of the exploration
\* ------------------------------------------------------------------------
\* longest input (in bytes) fed to an engine from the byte alphabet
MaxLen == 2
\* longest log of update/finalize calls made on one engine
MaxOps == 4
\* longest pair of inputs compared bit by bit
MaxPairLen == 2
\* longest triple of inputs combined by XOR
MaxTripleLen == 2

\* ------------------------------------------------------------------------
\* Fixed-width unsigned integers as byte sequences
\* ------------------------------------------------------------------------
Widths == {8, 16, 32, 64, 128}

NBytes(w) == w \div 8

Byte == 0..255

RECURSIVE XorN(_, _, _)
XorN(a, b, n) ==
    IF n = 0 THEN 0
    ELSE ((a + b) % 2) + 2 * XorN(a \div 2, b \div 2, n - 1)

RECURSIVE AndN(_, _, _)
AndN(a, b, n) ==
    IF n = 0 THEN 0
    ELSE ((a % 2) * (b % 2)) + 2 * AndN(a \div 2, b \div 2, n - 1)

XorTab == [a \in Byte |-> [b \in Byte |-> XorN(a, b, 8)]]

AndTab == [a \in Byte |-> [b \in Byte |-> AndN(a, b, 8)]]

\* x ^ y on uW
BitXor(x, y) == [i \in 1..Len(x) |-> XorTab[x[i]][y[i]]]

\* x & y on uW
BitAnd(x, y) == [i \in 1..Len(x) |-> AndTab[x[i]][y[i]]]

\* uW::MAX
MAX(w) == [i \in 1..NBytes(w) |-> 255]

\* 0 of type uW
Zero(w) == [i \in 1..NBytes(w) |-> 0]

\* `b as uW` for a u8 b: zero extension
Cast(w, b) == [i \in 1..NBytes(w) |-> IF i = NBytes(w) THEN b ELSE 0]

\* x << 1 on uW: the bit leaving the top byte is dropped
Shl1(x) ==
    [i \in 1..Len(x) |->
        ((2 * x[i]) % 256) + (IF i < Len(x) THEN x[i + 1] \div 128 ELSE 0)]

\* x << 8n on uW: the bytes move up n places
ShlBytes(x, n) == [i \in 1..Len(x) |-> IF i + n <= Len(x) THEN x[i + n] ELSE 0]

RECURSIVE ShlBits(_, _)
ShlBits(x, k) == IF k = 0 THEN x ELSE ShlBits(Shl1(x), k - 1)

\* x << k on uW, for 0 <= k < W
Shl(x, k) == ShlBits(ShlBytes(x, k \div 8), k % 8)

\* `<<` panics ("attempt to shift left with overflow") when the shift
\* amount is not smaller than the width of the type
ShlOverflows(w, k) == k >= w

\* a binary literal 0b... of type uW, its digits given most significant
\* first: the value is zero-extended on the left to W bits
RECURSIVE BitsValue(_)
BitsValue(bits) ==
    IF bits = <<>> THEN 0
    ELSE 2 * BitsValue(SubSeq(bits, 1, Len(bits) - 1)) + bits[Len(bits)]

PadLeft(w, bits) == [i \in 1..(w - Len(bits)) |-> 0] \o bits

PadRight(w, bits) == bits \o [i \in 1..(w - Len(bits)) |-> 0]

Pack(w, bits) ==
    [i \in 1..NBytes(w) |-> BitsValue(SubSeq(bits, 8 * (i - 1) + 1, 8 * i))]

FromBits_left(w, bits) == Pack(w, PadRight(w, bits))

FromBits(w, bits) == Pack(w, PadLeft(w, bits))

\* ------------------------------------------------------------------------
\* Constants of the engines
\* ------------------------------------------------------------------------
\* the digits of the binary literal each Default impl passes to create
DefaultBits(w) ==
    CASE w = 8 -> <<0,0,0,0,0,1,1,1>>
      [] w = 16 -> <<1,0,0,0,0,0,0,0,0,0,0,0,0,1,0,1>>
      [] w = 32 -> <<0,0,0,0,0,1,0,0,1,1,0,0,0,0,0,1,
                     0,0,0,1,1,1,0,1,1,0,1,1,0,1,1,1>>
      [] w = 64 -> <<0,1,0,0,0,0,1,0,1,1,1,1,0,0,0,0,
                     1,1,1,0,0,0,0,1,1,1,1,0,1,0,1,1,
                     1,0,1,0,1,0,0,1,1,1,1,0,1,0,1,0,
                     0,0,1,1,0,1,1,0,1,0,0,1,0,0,1,1>>
      [] w = 128 -> <<1,1,1,0,0,0,1,1,1,1,0,0,0,0,1,1,
                      1,1,0,1,0,1,0,1,1,0,1,0,0,1,1,1,
                      1,1,1,0,1,0,0,1,1,1,1,1,0,1,1,1,
                      1,1,0,1,0,1,0,0,1,1,1,0,0,0,0,1,
                      1,1,1,1,0,0,1,1,1,1,1,1,0,0,0,0,
                      1,1,1,1,1,0,1,1,1,0,1,0,1,0,1,1,
                      0,1,1,0,0,1,0,1,1,1,0,0,0,1,1,1,
                      1,0,0,0,1,0,0,1,0,0,0,1>>

DefaultPolynomial(w) == FromBits(w, DefaultBits(w))

\* the mask of the `self.crc & MASK != 0` test, with the low bit set
MsbMask_low(w) == Cast(w, 1)

\* the mask of the `self.crc & MASK != 0` test: 0x80, 0x8000, 0x8000_0000, ...
MsbMask(w) ==
    CASE w = 8 -> <<128>>
      [] w = 16 -> <<128, 0>>
      [] w = 32 -> <<128, 0, 0, 0>>
      [] w = 64 -> <<128, 0, 0, 0, 0, 0, 0, 0>>
      [] w = 128 -> <<128, 0, 0, 0, 0, 0, 0, 0, 0, 0, 0, 0, 0, 0, 0, 0>>

\* the shift amount of `(*ibyte as uW) << k`, taken to be the whole width
AlignShift_width(w) == w

\* the shift amount of `(*ibyte as uW) << k`; CRC8 XORs the byte unshifted
AlignShift(w) ==
    CASE w = 8 -> 0
      [] w = 16 -> 8
      [] w = 32 -> 24
      [] w = 64 -> 56
      [] w = 128 -> 120

\* TEST_DATA = b"hello world"
TEST_DATA == <<104, 101, 108, 108, 111, 32, 119, 111, 114, 108, 100>>

\* the values the tests assert finalize() to return on TEST_DATA
TestVector(w) ==
    CASE w = 8 -> <<148>>
      [] w = 16 -> <<200, 20>>
      [] w = 32 -> <<68, 247, 19, 120>>
      [] w = 64 -> <<194, 135, 2, 3, 33, 148, 59, 157>>
      [] w = 128 -> <<27, 0, 74, 145, 199, 239, 25, 19,
                      78, 119, 156, 10, 195, 32, 173, 140>>

\* ------------------------------------------------------------------------
\* The engine: create, default, update, finalize
\* ------------------------------------------------------------------------
\* the byte XORed into the low byte of the register
Align_low(w, b) == Cast(w, b)

\* (*ibyte as uW) << k: the byte moved to the top byte of the register
Align(w, b) == Shl(Cast(w, b), AlignShift(w))

\* one pass of the bit loop where the set-MSB branch forgets the polynomial
FoldBit_noxor(w, crc, polynomial) == Shl1(crc)

\* one pass of `for _bit in 0..8u8`
FoldBit(w, crc, polynomial) ==
    IF BitAnd(crc, MsbMask(w)) # Zero(w)
    THEN BitXor(Shl1(crc), polynomial)
    ELSE Shl1(crc)

RECURSIVE FoldBits(_, _, _, _)
FoldBits(w, crc, polynomial, n) ==
    IF n = 0 THEN crc
    ELSE FoldBits(w, FoldBit(w, crc, polynomial), polynomial, n - 1)

\* the body of `for ibyte in data` with a bit loop of 7 passes
FoldByte_7(w, crc, polynomial, b) ==
    FoldBits(w, BitXor(crc, Align(w, b)), polynomial, 7)

\* the body of `for ibyte in data` with the byte added to the top byte of
\* the register (wrapping) instead of XORed into it
FoldByte_add(w, crc, polynomial, b) ==
    FoldBits(w, [crc EXCEPT ![1] = (crc[1] + b) % 256], polynomial, 8)

\* the body of `for ibyte in data`
FoldByte(w, crc, polynomial, b) ==
    FoldBits(w, BitXor(crc, Align(w, b)), polynomial, 8)

\* the loop `for ibyte in data`: the register of one iteration is computed
\* (the test on it forces its evaluation) before the next iteration starts
RECURSIVE FoldData(_, _, _, _)
FoldData(w, crc, polynomial, data) ==
    IF data = <<>> THEN crc
    ELSE LET next == FoldByte(w, crc, polynomial, Head(data))
         IN  IF Len(next) = NBytes(w)
             THEN FoldData(w, next, polynomial, Tail(data))
             ELSE next

\* update that restarts from the initial register on every call
update_reset(w, crc, polynomial, data) ==
    FoldData(w, MAX(w), polynomial, data)

\* CRC::update: the register after `self.update(data)`
update(w, crc, polynomial, data) == FoldData(w, crc, polynomial, data)

\* whether update panics: one of its shifts overflows
updatePanics(w) == ShlOverflows(w, AlignShift(w)) \/ ShlOverflows(w, 1)

\* finalize without the complement
finalize_raw(w, crc) == crc

\* CRC::finalize
finalize(w, crc) == BitXor(crc, MAX(w))

\* create with a zero register
create_zero(w, polynomial) == [crc |-> Zero(w), polynomial |-> polynomial]

\* CRC::create
create(w, polynomial) == [crc |-> MAX(w), polynomial |-> polynomial]

\* Default::default
default(w) == create(w, DefaultPolynomial(w))

\* ------------------------------------------------------------------------
\* Inputs of the exploration
\* ------------------------------------------------------------------------
\* the byte alphabet of the inputs (0x00, 0x81, 0xFF)
Bytes == {0, 129, 255}

\* the polynomials passed to create
Polys(w) == {Zero(w), Cast(w, 1), DefaultPolynomial(w)}

\* every u8 polynomial
AllPolys8 == {<<p>> : p \in Byte}

RECURSIVE SeqsUpTo(_, _)
SeqsUpTo(S, n) ==
    IF n = 0 THEN {<<>>}
    ELSE LET R == SeqsUpTo(S, n - 1)
         IN  R \cup {Append(r, x) : r \in {q \in R : Len(q) = n - 1}, x \in S}

\* TEST_DATA twice: an input longer than the widest register
LongData == TEST_DATA \o TEST_DATA

\* the places where LongData is cut: b"hello", b" ", b"world", TEST_DATA
TestCuts == {0, 5, 6, Len(TEST_DATA), Len(LongData)}

\* the slices of LongData between two cuts
TestSlices == {SubSeq(LongData, i + 1, j) : i \in TestCuts, j \in TestCuts}

\* the arguments of update
Chunks == SeqsUpTo(Bytes, MaxLen) \cup TestSlices

IsPrefix(s, t) == Len(s) <= Len(t) /\ SubSeq(t, 1, Len(s)) = s

\* the inputs the exploration keeps: short ones, and the prefixes of LongData
InBounds(s) ==
    \/ Len(s) <= MaxLen /\ \A i \in 1..Len(s) : s[i] \in Bytes
    \/ IsPrefix(s, LongData)

\* ------------------------------------------------------------------------
\* State
\* ------------------------------------------------------------------------
VARIABLES
    width,       \* the engine type: 8 for CRC8, ..., 128 for CRC128
    crc,         \* self.crc
    polynomial,  \* self.polynomial
    byDefault,   \* the engine was built by Default::default
    fed,         \* all bytes passed to update so far, in order
    ops,         \* the calls made on the engine so far, each update with
                 \* whether its argument was empty
    out,         \* the value returned by the last finalize, <<>> if none
    panicked,    \* a call has panicked
    peers,       \* registers of further engines of the same type and polynomial
    peerFed      \* the bytes passed to each of them

vars == <<width, crc, polynomial, byDefault, fed, ops, out, panicked,
          peers, peerFed>>

Fresh(w, e, d) ==
    /\ width = w
    /\ crc = e.crc
    /\ polynomial = e.polynomial
    /\ byDefault = d
    /\ fed = <<>>
    /\ ops = <<>>
    /\ out = <<>>
    /\ panicked = FALSE

\* one engine, built by create(p) or by default()
Init ==
    /\ \E w \in Widths :
         \/ \E p \in Polys(w) : Fresh(w, create(w, p), FALSE)
         \/ Fresh(w, default(w), TRUE)
    /\ peers = <<>>
    /\ peerFed = <<>>

\* self.update(data)
Update(data) ==
    /\ ~panicked
    /\ Len(ops) < MaxOps
    /\ InBounds(fed \o data)
    /\ IF updatePanics(width)
       THEN /\ panicked' = TRUE
            /\ UNCHANGED <<crc, fed>>
       ELSE /\ crc' = update(width, crc, polynomial, data)
            /\ fed' = fed \o data
            /\ UNCHANGED panicked
    /\ ops' = Append(ops, [op |-> "update", empty |-> (data = <<>>)])
    /\ UNCHANGED <<width, polynomial, byDefault, out, peers, peerFed>>

\* self.finalize()
Finalize ==
    /\ ~panicked
    /\ Len(ops) < MaxOps
    /\ out' = finalize(width, crc)
    /\ ops' = Append(ops, [op |-> "finalize", empty |-> TRUE])
    /\ UNCHANGED <<width, crc, polynomial, byDefault, fed, panicked,
                   peers, peerFed>>

Next ==
    \/ \E data \in Chunks : Update(data)
    \/ Finalize

Spec == Init /\ [][Next]_vars

\* ------------------------------------------------------------------------
\* Two engines of one type and polynomial, fed byte by byte
\* ------------------------------------------------------------------------
PairPolys(w) == IF w = 8 THEN AllPolys8 ELSE Polys(w) \cup {MsbMask(w), MAX(w)}

\* b with bit k inverted
FlipBit(b, k) == XorTab[b][2 ^ k]

\* a byte and the bytes one bit away from it
Near(b) == {b} \cup {FlipBit(b, k) : k \in 0..7}

RECURSIVE Ones(_)
Ones(b) == IF b = 0 THEN 0 ELSE (b % 2) + Ones(b \div 2)

\* number of bit positions where two inputs of one length differ
RECURSIVE BitDistance(_, _)
BitDistance(s, t) ==
    IF s = <<>> THEN 0
    ELSE Ones(XorTab[Head(s)][Head(t)]) + BitDistance(Tail(s), Tail(t))

InitPair ==
    /\ \E w \in Widths : \E p \in PairPolys(w) :
         /\ Fresh(w, create(w, p), FALSE)
         /\ peers = <<create(w, p).crc>>
    /\ peerFed = << <<>> >>

\* update(&[a]) on the first engine, update(&[b]) on the second
FeedPair(a, b) ==
    /\ Len(fed) < MaxPairLen
    /\ BitDistance(Append(fed, a), Append(peerFed[1], b)) <= 1
    /\ crc' = update(width, crc, polynomial, <<a>>)
    /\ fed' = Append(fed, a)
    /\ peers' = <<update(width, peers[1], polynomial, <<b>>)>>
    /\ peerFed' = <<Append(peerFed[1], b)>>
    /\ UNCHANGED <<width, polynomial, byDefault, ops, out, panicked>>

NextPair == \E a \in Bytes : \E b \in Near(a) : FeedPair(a, b)

SpecPair == InitPair /\ [][NextPair]_vars

\* ------------------------------------------------------------------------
\* Four engines of one type and polynomial: three inputs and their XOR
\* ------------------------------------------------------------------------
InitTriple ==
    /\ \E w \in Widths : \E p \in Polys(w) :
         /\ Fresh(w, create(w, p), FALSE)
         /\ peers = [i \in 1..3 |-> create(w, p).crc]
    /\ peerFed = [i \in 1..3 |-> <<>>]

\* update(&[a]), update(&[b]), update(&[c]) and update(&[a ^ b ^ c])
FeedTriple(a, b, c) ==
    /\ Len(fed) < MaxTripleLen
    /\ crc' = update(width, crc, polynomial, <<a>>)
    /\ fed' = Append(fed, a)
    /\ peers' = << update(width, peers[1], polynomial, <<b>>),
                   update(width, peers[2], polynomial, <<c>>),
                   update(width, peers[3], polynomial,
                          <<XorTab[XorTab[a][b]][c]>>) >>
    /\ peerFed' = << Append(peerFed[1], b),
                     Append(peerFed[2], c),
                     Append(peerFed[3], XorTab[XorTab[a][b]][c]) >>
    /\ UNCHANGED <<width, polynomial, byDefault, ops, out, panicked>>

NextTriple == \E a \in Bytes, b \in Bytes, c \in Bytes : FeedTriple(a, b, c)

SpecTriple == InitTriple /\ [][NextTriple]_vars

\* ------------------------------------------------------------------------
\* Vocabulary of the properties
\* ------------------------------------------------------------------------
Last(s) == s[Len(s)]

Finalized == ops # <<>> /\ Last(ops).op = "finalize"

\* the updates made so far that had a nonempty argument
NonemptyUpdates == {i \in 1..Len(ops) : ops[i].op = "update" /\ ~ops[i].empty}

\* x XOR all-ones, byte by byte
Complement(x) == [i \in 1..Len(x) |-> 255 - x[i]]

\* the uW value with byte b on top and zeros below: b * 2^(W-8)
AtTop(w, b) == [i \in 1..NBytes(w) |-> IF i = 1 THEN b ELSE 0]

\* a value of type uW
IsReg(w, x) == Len(x) = NBytes(w) /\ \A i \in 1..Len(x) : x[i] \in Byte

\* the bits of a uW value, most significant first
Bits(x) ==
    [i \in 1..(8 * Len(x)) |->
        (x[((i - 1) \div 8) + 1] \div (2 ^ (7 - ((i - 1) % 8)))) % 2]

\* the integer a u8 or u16 value stands for
Value(x) == IF Len(x) = 1 THEN x[1] ELSE 256 * x[1] + x[2]

\* position of the highest set bit of a nonzero uW value (bit 0 is the lowest)
HighestSetBit(x) ==
    LET b == Bits(x)
        first == CHOOSE i \in 1..Len(b) : b[i] = 1 /\ \A j \in 1..(i - 1) : b[j] = 0
    IN  Len(b) - first

\* the register of a fresh engine with this polynomial after one update(fed)
OneShot == update(width, create(width, polynomial).crc, polynomial, fed)

\* C1: a default-constructed engine that was fed "hello world" in one update
\* returns the documented vector of its width from finalize.
HelloWorldVectors ==
    (byDefault /\ fed = TEST_DATA /\ Len(ops) = 2 /\ ops[1].op = "update"
       /\ Finalized)
    => out = TestVector(width)

HelloWorldWitness ==
    /\ width = 128 /\ byDefault /\ fed = TEST_DATA
    /\ Len(ops) = 2 /\ ops[1].op = "update" /\ Finalized
    /\ out = <<27, 0, 74, 145, 199, 239, 25, 19,
               78, 119, 156, 10, 195, 32, 173, 140>>

\* C2: streaming equivalence: however the input was split over update calls,
\* the register (and so the finalize value) is the one a fresh engine with
\* the same polynomial holds after a single update with the concatenation.
StreamingEquivalence ==
    LET one == OneShot
    IN  /\ crc = one
        /\ finalize(width, crc) = finalize(width, one)

StreamingWitness ==
    /\ Cardinality(NonemptyUpdates) >= 3
    /\ fed = TEST_DATA
    /\ width = 64
    /\ crc = <<61, 120, 253, 252, 222, 107, 196, 98>>

\* C3: finalize is a pure read: it returns register XOR all-ones and leaves
\* register and polynomial alone; two finalize calls in a row return the same
\* value; a finalize between updates does not change what a later finalize
\* returns, which depends only on the bytes fed.
FinalizePure ==
    /\ [][ops' = Append(ops, [op |-> "finalize", empty |-> TRUE])
            => /\ crc' = crc
               /\ polynomial' = polynomial
               /\ out' = Complement(crc)
               /\ (Finalized => out' = out)]_vars
    /\ [](Finalized => out = Complement(OneShot))

FinalizePureWitness ==
    /\ Len(ops) = 4
    /\ ops[1].op = "update" /\ ~ops[1].empty
    /\ ops[2].op = "finalize"
    /\ ops[3].op = "update" /\ ~ops[3].empty
    /\ ops[4].op = "finalize"
    /\ out = Complement(crc)

\* C4: a fresh engine holds all-ones; empty updates leave the register
\* unchanged, so finalize returns 0 as long as no byte was fed.
FreshAllOnes ==
    fed = <<>> =>
        /\ crc = [i \in 1..NBytes(width) |-> 255]
        /\ (Finalized => out = [i \in 1..NBytes(width) |-> 0])

FreshAllOnesWitness ==
    /\ byDefault /\ fed = <<>>
    /\ Len(ops) = 2 /\ ops[1].op = "update" /\ ops[1].empty /\ Finalized
    /\ out = [i \in 1..NBytes(width) |-> 0]

\* C5: no call fails; the register is always a W-bit value; a left shift by
\* one keeps the low W bits (the value modulo 2^W); the alignment shift puts
\* the whole byte in the top byte of the register.
TotalAndWrapping ==
    /\ ~panicked
    /\ IsReg(width, crc)
    /\ IsReg(width, polynomial)
    /\ out # <<>> => IsReg(width, out)
    /\ IsReg(width, Shl1(crc))
    /\ Bits(Shl1(crc)) = Tail(Bits(crc)) \o <<0>>
    /\ width <= 16 => Value(Shl1(crc)) = (2 * Value(crc)) % (2 ^ width)
    /\ \A i \in 1..Len(fed) : Align(width, fed[i]) = AtTop(width, fed[i])
    /\ AlignShift(width) = width - 8

TotalAndWrappingWitness ==
    /\ width = 128 /\ polynomial = Zero(128) /\ fed = <<255, 129>>
    /\ crc[1] >= 128 /\ Shl1(crc)[1] < 2 * crc[1]
    /\ Finalized

\* one byte of the pure-shift case: ((r XOR (B << (W-8))) << 8) mod 2^W
ShiftedByte(w, r, b) ==
    Tail([i \in 1..NBytes(w) |-> IF i = 1 THEN XorN(r[1], b, 8) ELSE r[i]])
    \o <<0>>

RECURSIVE PureShift(_, _, _)
PureShift(w, r, data) ==
    IF data = <<>> THEN r
    ELSE LET next == ShiftedByte(w, r, Head(data))
         IN  IF IsReg(w, next) THEN PureShift(w, next, Tail(data)) ELSE next

\* C6: with polynomial 0 every byte B takes the register r to
\* ((r XOR (B << (W-8))) << 8) mod 2^W; no call fails and finalize is a
\* function of the bytes fed.
ZeroPolynomialShifts ==
    polynomial = Zero(width) =>
        /\ ~panicked
        /\ crc = PureShift(width, MAX(width), fed)
        /\ (Finalized => out = Complement(PureShift(width, MAX(width), fed)))

ZeroPolynomialWitness ==
    /\ polynomial = Zero(width) /\ width = 32
    /\ fed = <<129, 0>> /\ crc = <<255, 255, 0, 0>>
    /\ Finalized /\ out = <<0, 0, 255, 255>>

\* the default polynomial of the 128-bit engine as documented (hexadecimal
\* 0E3C3D5A 7E9F7D4E 1F3F0FBA B65C7891)
DocumentedPoly128 ==
    <<14, 60, 61, 90, 126, 159, 125, 78, 31, 63, 15, 186, 182, 92, 120, 145>>

\* C7 as stated: the default 128-bit polynomial is a 121-bit value: its
\* highest set bit is bit 120 and bits 121..127 are zero.
Default128Is121Bits ==
    (byDefault /\ width = 128) =>
        /\ polynomial = DocumentedPoly128
        /\ HighestSetBit(polynomial) = 120
        /\ \A i \in 1..7 : Bits(polynomial)[i] = 0

\* C7 amended: the default 128-bit polynomial is the documented literal, a
\* 124-bit value zero-extended to 128 bits: its highest set bit is bit 123
\* and bits 124..127 are zero.
Default128Is124Bits ==
    (byDefault /\ width = 128) =>
        /\ Len(DefaultBits(128)) = 124
        /\ polynomial = DocumentedPoly128
        /\ HighestSetBit(polynomial) = 123
        /\ \A i \in 1..4 : Bits(polynomial)[i] = 0

Default128Witness ==
    /\ byDefault /\ width = 128 /\ polynomial[1] = 14 /\ polynomial[16] = 145

\* C8: with a nonzero polynomial, two inputs of one nonzero length that
\* differ in exactly one bit get different finalize values.
SingleBitDetected ==
    (/\ polynomial # Zero(width)
     /\ Len(peerFed) = 1
     /\ Len(fed) > 0
     /\ Len(fed) = Len(peerFed[1])
     /\ BitDistance(fed, peerFed[1]) = 1)
    => finalize(width, crc) # finalize(width, peers[1])

SingleBitWitness ==
    /\ width = 8 /\ polynomial = <<128>>
    /\ Len(fed) >= 2 /\ Len(peerFed[1]) = Len(fed)
    /\ fed[1] = 129 /\ peerFed[1][1] = 1
    /\ SubSeq(fed, 2, Len(fed)) = SubSeq(peerFed[1], 2, Len(fed))
    /\ crc # peers[1]

\* C9: with polynomial 0 the register after n bytes is
\* (all-ones << 8n) mod 2^W whatever the bytes are; from n = W/8 bytes on
\* it is 0 and finalize returns all-ones.
ZeroPolynomialIgnoresData ==
    polynomial = Zero(width) =>
        LET n == Len(fed)
            r == [i \in 1..NBytes(width) |->
                     IF i <= NBytes(width) - n THEN 255 ELSE 0]
        IN  /\ crc = r
            /\ (n >= NBytes(width) => crc = [i \in 1..NBytes(width) |-> 0])
            /\ (Finalized => out = Complement(r))
            /\ (Finalized /\ n >= NBytes(width)
                  => out = [i \in 1..NBytes(width) |-> 255])

ZeroPolynomialIgnoresWitness ==
    /\ polynomial = Zero(width) /\ width = 16
    /\ fed = <<129, 255>> /\ Finalized /\ out = <<255, 255>>

\* bytewise XOR of three inputs of one length
Xor3(a, b, c) == [i \in 1..Len(a) |-> XorN(XorN(a[i], b[i], 8), c[i], 8)]

\* C10: finalize and the raw register are affine over GF(2): for inputs
\* a, b, c of one length, F(a) XOR F(b) XOR F(c) = F(a XOR b XOR c).
AffineOverGF2 ==
    (/\ Len(peerFed) = 3
     /\ peerFed[3] = Xor3(fed, peerFed[1], peerFed[2]))
    => /\ Xor3(crc, peers[1], peers[2]) = peers[3]
       /\ Xor3(finalize(width, crc), finalize(width, peers[1]),
               finalize(width, peers[2])) = finalize(width, peers[3])

AffineWitness ==
    /\ Len(peerFed) = 3 /\ width = 32
    /\ polynomial = DefaultPolynomial(32)
    /\ fed = <<0, 129>> /\ peerFed[1] = <<129, 255>> /\ peerFed[2] = <<255, 255>>
    /\ peerFed[3] = <<126, 129>>
    /\ Cardinality({crc, peers[1], peers[2], peers[3]}) = 4

====
